---- MODULE Spec2Model ----
(***************************************************************************)
(* Model of the Fisher job processor (src/src/processor.rs):              *)
(* ProcessorManager, the Processor event loop with its overflow queue and  *)
(* worker list, and the worker threads.                                    *)
(*                                                                         *)
(* Granularity.  The scheduler thread, every worker thread, the producer   *)
(* (HTTP front-end) and the caller of ProcessorManager::stop are separate  *)
(* processes.  A scheduler handler is one step up to its next blocking     *)
(* point (Thread::stop joins the worker) or its next scan of the busy      *)
(* flags (one call of run_job is one scan).  A worker's job is a chain of  *)
(* steps: take the command, run the job, run each status hook, clear busy, *)
(* send JobEnded.                                                          *)
(***************************************************************************)
EXTENDS Integers, Sequences, FiniteSets, TLC

\* ---------------------------------------------------------------- bounds
MaxThreads == 2
MaxJobs == 3
MaxHealth == 1
MaxStops == 2
MaxHooks == 1
MaxRequests == 3

Workers == 1..MaxThreads

VARIABLES
    max_threads,   \* Processor.max_threads
    mgr_input,     \* ProcessorManager.input is Some(..)
    mgr_pc,        \* position of the caller of ProcessorManager::stop
    stops,         \* number of stop() calls made
    returned,      \* number of stop() calls that returned from stop_wait.recv()
    sched_pc,      \* position of the scheduler thread
    jobs,          \* Processor.jobs (the overflow queue)
    should_stop,   \* Processor.should_stop
    threads,       \* Processor.threads (worker ids, in list order)
    chan,          \* messages in flight on the Processor input channel
    chan_open,     \* Processor.input_recv is alive
    cur_job,       \* run_jobs: the job of the current loop iteration
    push_front,    \* run_jobs: its push_front argument
    given,         \* run_jobs: the workers this call has given a job so far
    scan,          \* run_job: position in the list of the worker it tries
    to_remove,     \* cleanup_threads: indices still to remove
    joining,       \* Thread::stop: the worker being joined (0: none)
    busy,          \* Thread.busy, per worker
    wstop,         \* Thread.should_stop, per worker
    wsender,       \* Thread.input (the sender) is alive, per worker
    winbox,        \* messages in flight on the worker's channel
    wpc,           \* position of the worker thread
    wjob,          \* the job the worker thread holds
    wres,          \* the result of the worker's last job.process()
    whooks,        \* status hooks the worker has still to run for that job
    wexec,         \* executions (job and status hooks) done for that job
    wfail,         \* the status hooks of that job that failed (positions)
    nhooks,        \* Hooks: number of status hooks that match a job's event
    next_job,      \* producer: id of the next job to submit
    health_sent,   \* producer: number of HealthStatus requests sent
    health,        \* HealthDetails replies, in the order they were sent
    dispatched,    \* history: jobs in the order they were dispatched
    executed,      \* history: the jobs that finished executing
    overflowed,    \* history: jobs in the order they first entered the queue
    queued_at_stop, \* history: the queue when StopSignal was handled
    enable_health, \* WebApi: FisherOptions.enable_health
    web_wait,      \* WebApi::get_health: the reply it waits for (0: none)
    http_count,    \* number of HTTP requests received
    http_last,     \* the last HTTP request and its response
    hook_name      \* Job::hook_name of the jobs the front-end created

vars == <<max_threads, mgr_input, mgr_pc, stops, returned, sched_pc, jobs,
          should_stop, threads, chan, chan_open, cur_job, push_front, given, scan,
          to_remove, joining, busy, wstop, wsender, winbox, wpc, wjob,
          wres, whooks, wexec, wfail, nhooks,
          next_job, health_sent, health, dispatched, executed, overflowed,
          queued_at_stop,
          enable_health, web_wait, http_count, http_last, hook_name>>

webVars == <<enable_health, web_wait, http_count, http_last, hook_name>>
mgrVars == <<mgr_input, mgr_pc, stops, returned>>
prodVars == <<next_job, health_sent>>
hookVars == <<wres, whooks, wexec, wfail>>
workerVars == <<wpc, wjob, hookVars>>
cfgVars == <<max_threads, nhooks>>
runVars == <<cur_job, push_front, given>>
cleanVars == <<to_remove, joining>>

\* ------------------------------------------------------------- messages
Msg(t, j) == [t |-> t, job |-> j]
Range(s) == {s[i] : i \in 1..Len(s)}

\* ----------------------------------------------------- Processor helpers

\* Processor::busy_threads: count the workers of the list whose flag is set
RECURSIVE busy_count(_, _)
busy_count(ths, b) ==
    IF ths = <<>> THEN 0
    ELSE (IF b[Head(ths)] THEN 1 ELSE 0) + busy_count(Tail(ths), b)

busy_threads == busy_count(threads, busy)

\* Thread::process, the consistency check: TRUE when the job is accepted
ThreadAcceptsWhileBusy(w) == ~wstop[w]
ThreadAcceptsUnlessStopping(w) == ~(wstop[w] \/ busy[w] \/ should_stop)
ThreadAccepts(w) == ~(wstop[w] \/ busy[w])

\* Processor::run_job: position in the list of the first worker that
\* accepts the job, 0 when every worker hands it back
RECURSIVE first_accepting(_, _)
first_accepting(ths, i) ==
    IF i > Len(ths) THEN 0
    ELSE IF ThreadAccepts(ths[i]) THEN i
    ELSE first_accepting(ths, i + 1)

run_job_target_SkipsFirst == first_accepting(threads, 2)
run_job_target == first_accepting(threads, 1)

\* Processor::run: the spawn loop, for _ in 0..max_threads
SpawnThreadsAtLeastOne(n) == [i \in 1..(IF n = 0 THEN 1 ELSE n) |-> i]
SpawnThreadsOffByOne(n) == [i \in 1..(n + 1) |-> i]
SpawnThreads(n) == [i \in 1..n |-> i]

\* Processor::cleanup_threads, first loop: the 0-based indices to remove
RECURSIVE scan_to_remove(_, _, _, _)
scan_to_remove(ths, i, remaining, stop) ==
    IF i > Len(ths) THEN <<>>
    ELSE IF busy[ths[i]] THEN scan_to_remove(ths, i + 1, remaining, stop)
    ELSE IF stop \/ remaining > max_threads
         THEN <<i - 1>> \o scan_to_remove(ths, i + 1, remaining - 1, stop)
         ELSE scan_to_remove(ths, i + 1, remaining, stop)

\* Vec::remove(index)
VecRemove(s, idx) == [k \in 1..(Len(s) - 1) |-> IF k <= idx THEN s[k] ELSE s[k + 1]]

\* ------------------------------------------------------------------ Init

\* no HTTP request was received yet
NoRequest == [path |-> "", hook |-> "", secret |-> "", ip |-> "",
              request_type |-> "", status |-> 0, job |-> 0]

\* the processor is used without the HTTP front-end
WebIdle ==
    /\ enable_health = TRUE
    /\ web_wait = 0
    /\ http_count = 0
    /\ http_last = NoRequest
    /\ hook_name = <<>>

\* the state after ProcessorManager::new, the options left aside
ProcessorNew ==
    /\ mgr_input = FALSE
    /\ mgr_pc = "idle"
    /\ stops = 0
    /\ returned = 0
    /\ sched_pc = "none"
    /\ jobs = <<>>
    /\ should_stop = FALSE
    /\ threads = <<>>
    /\ chan = <<>>
    /\ chan_open = FALSE
    /\ cur_job = 0
    /\ push_front = FALSE
    /\ given = {}
    /\ scan = 0
    /\ to_remove = <<>>
    /\ joining = 0
    /\ busy = [w \in Workers |-> FALSE]
    /\ wstop = [w \in Workers |-> FALSE]
    /\ wsender = [w \in Workers |-> FALSE]
    /\ winbox = [w \in Workers |-> <<>>]
    /\ wpc = [w \in Workers |-> "none"]
    /\ wjob = [w \in Workers |-> 0]
    /\ wres = [w \in Workers |-> "none"]
    /\ whooks = [w \in Workers |-> 0]
    /\ wexec = [w \in Workers |-> 0]
    /\ wfail = [w \in Workers |-> {}]
    /\ next_job = 1
    /\ health_sent = 0
    /\ health = <<>>
    /\ dispatched = <<>>
    /\ executed = {}
    /\ overflowed = <<>>
    /\ queued_at_stop = <<>>

\* the state after ProcessorManager::new, for every max_threads and every
\* number of status hooks in the hooks directory
ProcessorInit ==
    /\ max_threads \in 0..MaxThreads
    /\ nhooks \in 0..MaxHooks
    /\ ProcessorNew

Init == ProcessorInit /\ WebIdle

\* ------------------------------------------------------ ProcessorManager

\* ProcessorManager::start: spawn the scheduler thread (Processor::new and
\* the spawn loop of Processor::run) and keep its input sender
Start ==
    /\ ~mgr_input
    /\ sched_pc = "none"
    /\ mgr_input' = TRUE
    /\ sched_pc' = "recv"
    /\ chan_open' = TRUE
    /\ threads' = SpawnThreads(max_threads)
    /\ wpc' = [w \in Workers |-> IF w \in Range(threads') THEN "recv" ELSE "none"]
    /\ wsender' = [w \in Workers |-> w \in Range(threads')]
    /\ UNCHANGED <<cfgVars, scan, webVars, mgr_pc, stops, returned, jobs, should_stop,
                   chan, runVars, cleanVars, busy, wstop, winbox, wjob,
                   hookVars, prodVars, health, dispatched, executed, overflowed,
                   queued_at_stop>>

\* ProcessorManager::stop, up to the blocking stop_wait.recv()
StopCall ==
    /\ mgr_pc = "idle"
    /\ stops < MaxStops
    /\ stops' = stops + 1
    /\ IF ~mgr_input
       THEN \* input is None: nothing to do
            /\ UNCHANGED <<mgr_pc, chan, returned>>
       ELSE IF chan_open
       THEN /\ chan' = Append(chan, Msg("StopSignal", 0))
            /\ mgr_pc' = "waiting"
            /\ UNCHANGED returned
       ELSE \* send(..).unwrap() on a channel without receiver
            /\ mgr_pc' = "panicked"
            /\ UNCHANGED <<returned, chan>>
    /\ UNCHANGED <<cfgVars, scan, webVars, mgr_input, sched_pc, jobs, should_stop,
                   threads, chan_open, runVars, cleanVars, busy, wstop,
                   wsender, winbox, workerVars, prodVars, health, dispatched,
                   executed, overflowed, queued_at_stop>>

\* stop_wait.recv() meets stop_wait_send.send(()) of the scheduler thread
StopReturn ==
    /\ mgr_pc = "waiting"
    /\ sched_pc = "notify"
    /\ mgr_pc' = "idle"
    /\ returned' = returned + 1
    /\ sched_pc' = "exiting"
    /\ UNCHANGED <<cfgVars, scan, webVars, mgr_input, stops, jobs, should_stop, threads,
                   chan, chan_open, runVars, cleanVars, busy, wstop, wsender,
                   winbox, workerVars, prodVars, health, dispatched, executed,
                   overflowed, queued_at_stop>>

\* stop_wait.recv().unwrap() when the scheduler thread is gone
StopWaitFails ==
    /\ mgr_pc = "waiting"
    /\ sched_pc \in {"panicked", "done"}
    /\ mgr_pc' = "panicked"
    /\ UNCHANGED <<cfgVars, scan, webVars, mgr_input, stops, returned, sched_pc, jobs,
                   should_stop, threads, chan, chan_open, runVars, cleanVars,
                   busy, wstop, wsender, winbox, workerVars, prodVars, health,
                   dispatched, executed, overflowed, queued_at_stop>>

\* ------------------------------------------------------------- producers

\* the front-end sends ProcessorInput::Job, for the n-th time at most
SendJobUpTo(n) ==
    /\ mgr_input
    /\ chan_open
    /\ next_job <= n
    /\ chan' = Append(chan, Msg("Job", next_job))
    /\ next_job' = next_job + 1
    /\ UNCHANGED <<cfgVars, scan, webVars, mgrVars, sched_pc, jobs, should_stop, threads,
                   chan_open, runVars, cleanVars, busy, wstop, wsender,
                   winbox, workerVars, health_sent, health, dispatched,
                   executed, overflowed, queued_at_stop>>

SendJob == SendJobUpTo(MaxJobs)

\* the front-end sends ProcessorInput::HealthStatus
SendHealth ==
    /\ mgr_input
    /\ chan_open
    /\ health_sent < MaxHealth
    /\ chan' = Append(chan, Msg("HealthStatus", 0))
    /\ health_sent' = health_sent + 1
    /\ UNCHANGED <<cfgVars, scan, webVars, mgrVars, sched_pc, jobs, should_stop, threads,
                   chan_open, runVars, cleanVars, busy, wstop, wsender,
                   winbox, workerVars, next_job, health, dispatched, executed,
                   overflowed, queued_at_stop>>

\* a requester sends ProcessorInput::HealthStatus and drops the receiver of
\* the reply before the scheduler answers (reply channel 2)
SendHealthDropped ==
    /\ mgr_input
    /\ chan_open
    /\ health_sent < MaxHealth
    /\ chan' = Append(chan, Msg("HealthStatus", 2))
    /\ health_sent' = health_sent + 1
    /\ UNCHANGED <<cfgVars, scan, webVars, mgrVars, sched_pc, jobs, should_stop, threads,
                   chan_open, runVars, cleanVars, busy, wstop, wsender,
                   winbox, workerVars, next_job, health, dispatched, executed,
                   overflowed, queued_at_stop>>

\* ------------------------------------------------------- HTTP front-end

\* a query parameter that the request does not carry
Absent == "<absent>"

\* the hooks of the instance and the provider each is bound to
HookProvider == [h \in {"example", "status-example"} |->
                    IF h = "example" THEN "Testing" ELSE "Status"]

\* the requests GET /hook/<name>?secret=..&ip=..&request_type=..; the ip
\* parameter is either the address the request comes from or another one
HookRequests ==
    [kind : {"Web"},
     hook : {"invalid", "example", "status-example"},
     secret : {Absent, "testing", "invalid"},
     ip : {Absent, "source", "other"},
     request_type : {Absent, "ping", "other"}]

\* a TestingProvider that does not look at the secret parameter
TestingValidateIgnoresSecret(req) ==
    IF req.kind # "Web" THEN "Invalid"
    ELSE IF req.ip # Absent /\ req.ip # "source" THEN "Invalid"
    ELSE IF req.request_type = "ping" THEN "Ping"
    ELSE "ExecuteHook"

\* TestingProvider::validate
TestingValidate(req) ==
    IF req.kind # "Web" THEN "Invalid"
    ELSE IF req.secret # Absent /\ req.secret # "testing" THEN "Invalid"
    ELSE IF req.ip # Absent /\ req.ip # "source" THEN "Invalid"
    ELSE IF req.request_type = "ping" THEN "Ping"
    ELSE "ExecuteHook"

\* the validation of a request by the provider of the hook: the internal
\* Status provider accepts no request that comes from the web
HookValidate(req) ==
    IF HookProvider[req.hook] = "Testing" THEN TestingValidate(req)
    ELSE "Invalid"

\* the response to a request, as kept in http_last
Response(path, req, status, job) ==
    [path |-> path, hook |-> req.hook, secret |-> req.secret, ip |-> req.ip,
     request_type |-> req.request_type, status |-> status, job |-> job]

\* WebApi::process_hook, the handler of /hook/<name>
ProcessHook ==
    /\ mgr_input
    /\ chan_open
    /\ web_wait = 0
    /\ http_count < MaxRequests
    /\ next_job <= MaxJobs
    /\ http_count' = http_count + 1
    /\ \E req \in HookRequests :
          IF req.hook \notin DOMAIN HookProvider
          THEN /\ http_last' = Response("hook", req, 404, 0)
               /\ UNCHANGED <<chan, next_job, hook_name>>
          ELSE IF HookValidate(req) = "Invalid"
          THEN /\ http_last' = Response("hook", req, 403, 0)
               /\ UNCHANGED <<chan, next_job, hook_name>>
          ELSE IF HookValidate(req) = "Ping"
          THEN /\ http_last' = Response("hook", req, 200, 0)
               /\ UNCHANGED <<chan, next_job, hook_name>>
          ELSE /\ http_last' = Response("hook", req, 200, next_job)
               /\ chan' = Append(chan, Msg("Job", next_job))
               /\ hook_name' = Append(hook_name, req.hook)
               /\ next_job' = next_job + 1
    /\ UNCHANGED <<cfgVars, scan, enable_health, web_wait, mgrVars, sched_pc, jobs,
                   should_stop, threads, chan_open, runVars, cleanVars, busy,
                   wstop, wsender, winbox, workerVars, health_sent, health,
                   dispatched, executed, overflowed, queued_at_stop>>

\* messages of type t in the channel c
MessagesOf(c, t) == Cardinality({i \in 1..Len(c) : c[i].t = t})

\* WebApi::get_health, the handler of /health: Forbidden when health is
\* disabled, else it sends HealthStatus with its own reply channel and waits
GetHealth ==
    /\ mgr_input
    /\ chan_open
    /\ web_wait = 0
    /\ http_count < MaxRequests
    /\ http_count' = http_count + 1
    /\ IF enable_health
       THEN /\ chan' = Append(chan, Msg("HealthStatus", 1))
            /\ web_wait' = Len(health) + MessagesOf(chan, "HealthStatus") + 1
            /\ http_last' = [NoRequest EXCEPT !.path = "health"]
       ELSE /\ http_last' = [NoRequest EXCEPT !.path = "health", !.status = 403]
            /\ UNCHANGED <<chan, web_wait>>
    /\ UNCHANGED <<cfgVars, scan, enable_health, hook_name, mgrVars, sched_pc, jobs,
                   should_stop, threads, chan_open, runVars, cleanVars, busy,
                   wstop, wsender, winbox, workerVars, prodVars, health,
                   dispatched, executed, overflowed, queued_at_stop>>

\* WebApi::get_health, the reply of the scheduler has come: 200
GetHealthReply ==
    /\ web_wait > 0
    /\ Len(health) >= web_wait
    /\ web_wait' = 0
    /\ http_last' = [http_last EXCEPT !.status = 200]
    /\ UNCHANGED <<cfgVars, scan, enable_health, http_count, hook_name, mgrVars,
                   sched_pc, jobs, should_stop, threads, chan, chan_open,
                   runVars, cleanVars, busy, wstop, wsender, winbox,
                   workerVars, prodVars, health, dispatched, executed,
                   overflowed, queued_at_stop>>

\* ------------------------------------------------------------- scheduler

\* a run_jobs that always puts the job no worker accepted at the tail
requeueAtTail(q, job, pf) == Append(q, job)

\* a run_jobs that forgets the job no worker accepted
requeueDrops(q, job, pf) == q

\* Processor::run_jobs: where a job that no worker accepted is put back
requeue(q, job, pf) == IF pf THEN <<job>> \o q ELSE Append(q, job)

\* Processor::run_jobs, one iteration of its loop on `job`, the queue being
\* q: run_job(job) scans the workers once; on success the next job is popped
RunJobsIter(job, pf, q) ==
    LET i == run_job_target IN
    IF i = 0
    THEN /\ jobs' = requeue(q, job, pf)
         /\ overflowed' = IF job \in Range(overflowed) THEN overflowed
                          ELSE Append(overflowed, job)
         /\ sched_pc' = "recv"
         /\ cur_job' = 0
         /\ push_front' = FALSE
         /\ given' = {}
         /\ UNCHANGED <<busy, winbox, dispatched>>
    ELSE \* Thread::process: set busy, then send Process(job)
         /\ busy' = [busy EXCEPT ![threads[i]] = TRUE]
         /\ winbox' = [winbox EXCEPT ![threads[i]] = Append(@, Msg("Process", job))]
         /\ dispatched' = Append(dispatched, job)
         /\ UNCHANGED overflowed
         /\ IF q # <<>>
            THEN /\ jobs' = Tail(q)
                 /\ cur_job' = Head(q)
                 /\ push_front' = pf
                 /\ given' = given \cup {threads[i]}
                 /\ sched_pc' = "run_jobs"
            ELSE /\ jobs' = q
                 /\ cur_job' = 0
                 /\ push_front' = FALSE
                 /\ given' = {}
                 /\ sched_pc' = "recv"

\* Thread::stop, the join: TRUE when handle.join() can return for worker w
JoinReturns(w) == wpc[w] = "exited"

\* the scheduler thread unwinds from a panic: the Processor is dropped, and
\* with it the receiver of the input channel, the workers' senders and
\* stop_wait_send
SchedPanics ==
    /\ sched_pc' = "panicked"
    /\ threads' = <<>>
    /\ to_remove' = <<>>
    /\ joining' = 0
    /\ wsender' = [w \in Workers |-> FALSE]
    /\ chan_open' = FALSE
    /\ UNCHANGED <<wstop, winbox>>

\* Processor::run: `if self.threads.len() == 0 { break; }` after the cleanup
LoopExitsWhileWorkersRemain(ths) == TRUE
LoopExits(ths) == Len(ths) = 0

\* Processor::cleanup_threads, second loop, from the indices tr still to
\* remove and the list ths, up to the next join; with tr empty, the test
\* `if self.threads.len() == 0 { break; }` that follows the call
RemoveNext(tr, ths) ==
    IF tr = <<>>
    THEN /\ threads' = ths
         /\ to_remove' = <<>>
         /\ joining' = 0
         /\ sched_pc' = IF LoopExits(ths) THEN "notify" ELSE "recv"
         /\ UNCHANGED <<wstop, winbox, chan_open>>
    ELSE IF Head(tr) >= Len(ths)
    THEN \* Vec::remove panics: index out of bounds
         SchedPanics
    ELSE \* Thread::stop: mark, send StopSignal, then join
         /\ threads' = VecRemove(ths, Head(tr))
         /\ wstop' = [wstop EXCEPT ![ths[Head(tr) + 1]] = TRUE]
         /\ winbox' = [winbox EXCEPT ![ths[Head(tr) + 1]] = Append(@, Msg("StopSignal", 0))]
         /\ joining' = ths[Head(tr) + 1]
         /\ to_remove' = Tail(tr)
         /\ sched_pc' = "join"
         /\ UNCHANGED chan_open

\* the scheduler is blocked in input_recv.recv() and a message is there
Receives(t) ==
    /\ sched_pc = "recv"
    /\ chan # <<>>
    /\ Head(chan).t = t
    /\ chan' = Tail(chan)

\* Processor::run, ProcessorInput::StopSignal
HandleStopSignal ==
    /\ Receives("StopSignal")
    /\ should_stop' = TRUE
    /\ queued_at_stop' = jobs
    /\ RemoveNext(scan_to_remove(threads, 1, Len(threads), TRUE), threads)
    /\ IF sched_pc' # "panicked" THEN UNCHANGED wsender ELSE TRUE
    /\ UNCHANGED <<cfgVars, scan, webVars, mgrVars, jobs, runVars, busy, workerVars,
                   prodVars, health, dispatched, executed, overflowed>>

\* Processor::run, ProcessorInput::Job(job)
HandleJob ==
    /\ Receives("Job")
    /\ RunJobsIter(Head(chan).job, FALSE, jobs)
    /\ UNCHANGED <<cfgVars, scan, webVars, mgrVars, should_stop, threads, chan_open,
                   cleanVars, wstop, wsender, workerVars, prodVars, health,
                   executed, queued_at_stop>>

\* a JobEnded arm that takes the message and leaves the queue alone
HandleJobEndedLeavesQueue ==
    /\ Receives("JobEnded")
    /\ UNCHANGED <<sched_pc, jobs, threads, chan_open, runVars, cleanVars,
                   busy, wstop, wsender, winbox, dispatched, overflowed>>
    /\ UNCHANGED <<cfgVars, scan, webVars, mgrVars, should_stop, workerVars, prodVars,
                   health, executed, queued_at_stop>>

\* Processor::run, ProcessorInput::JobEnded
HandleJobEnded ==
    /\ Receives("JobEnded")
    /\ IF jobs # <<>>
       THEN /\ RunJobsIter(Head(jobs), TRUE, Tail(jobs))
            /\ UNCHANGED <<threads, chan_open, cleanVars, wstop, wsender>>
       ELSE IF should_stop
       THEN /\ RemoveNext(scan_to_remove(threads, 1, Len(threads), should_stop),
                          threads)
            /\ IF sched_pc' # "panicked" THEN UNCHANGED wsender ELSE TRUE
            /\ UNCHANGED <<jobs, runVars, busy, dispatched, overflowed>>
       ELSE UNCHANGED <<sched_pc, jobs, threads, chan_open, runVars, cleanVars,
                        busy, wstop, wsender, winbox, dispatched, overflowed>>
    /\ UNCHANGED <<cfgVars, scan, webVars, mgrVars, should_stop, workerVars, prodVars,
                   health, executed, queued_at_stop>>

\* the HealthDetails the scheduler builds for a HealthStatus message
HealthDetailsCountsWorkers == [queue_size |-> Len(jobs), active_jobs |-> Len(threads)]
HealthDetails == [queue_size |-> Len(jobs), active_jobs |-> busy_threads]

\* Processor::run, ProcessorInput::HealthStatus(return_to)
HandleHealthStatusDrainsQueue ==
    /\ Receives("HealthStatus")
    /\ health' = Append(health, HealthDetails)
    /\ jobs' = <<>>
    /\ UNCHANGED <<cfgVars, scan, webVars, mgrVars, sched_pc, should_stop, threads,
                   chan_open, runVars, cleanVars, busy, wstop, wsender,
                   winbox, workerVars, prodVars, dispatched, executed,
                   overflowed, queued_at_stop>>

\* a scheduler that answers HealthStatus only when health is enabled
HandleHealthStatusIfEnabled ==
    /\ Receives("HealthStatus")
    /\ health' = IF enable_health THEN Append(health, HealthDetails) ELSE health
    /\ UNCHANGED <<cfgVars, scan, webVars, mgrVars, sched_pc, jobs, should_stop, threads,
                   chan_open, runVars, cleanVars, busy, wstop, wsender,
                   winbox, workerVars, prodVars, dispatched, executed,
                   overflowed, queued_at_stop>>

\* return_to.send(..).unwrap(): the send fails, and unwrap panics, when the
\* receiver of the reply was dropped
HandleHealthStatus ==
    /\ Receives("HealthStatus")
    /\ IF Head(chan).job = 2
       THEN /\ SchedPanics
            /\ UNCHANGED health
       ELSE /\ health' = Append(health, HealthDetails)
            /\ UNCHANGED <<sched_pc, threads, chan_open, cleanVars, wstop,
                           wsender, winbox>>
    /\ UNCHANGED <<cfgVars, scan, webVars, mgrVars, jobs, should_stop, runVars,
                   busy, workerVars, prodVars, dispatched, executed,
                   overflowed, queued_at_stop>>

\* Processor::run_jobs, a further iteration of its loop
RunJobsLoop ==
    /\ sched_pc = "run_jobs"
    /\ RunJobsIter(cur_job, push_front, jobs)
    /\ UNCHANGED <<cfgVars, scan, webVars, mgrVars, should_stop, threads, chan,
                   chan_open, cleanVars, wstop, wsender, workerVars, prodVars,
                   health, executed, queued_at_stop>>

\* Thread::stop returns from handle.join(); cleanup_threads goes on
JoinDone ==
    /\ sched_pc = "join"
    /\ JoinReturns(joining)
    /\ RemoveNext(to_remove, threads)
    /\ IF sched_pc' # "panicked"
       THEN wsender' = [wsender EXCEPT ![joining] = FALSE]
       ELSE TRUE
    /\ UNCHANGED <<cfgVars, scan, webVars, mgrVars, jobs, should_stop, chan, runVars,
                   busy, workerVars, prodVars, health, dispatched, executed,
                   overflowed, queued_at_stop>>

\* the scheduler thread ends after the stop_wait rendezvous: the Processor
\* is dropped
SchedExit ==
    /\ sched_pc = "exiting"
    /\ sched_pc' = "done"
    /\ chan_open' = FALSE
    /\ UNCHANGED <<cfgVars, scan, webVars, mgrVars, jobs, should_stop, threads, chan,
                   runVars, cleanVars, busy, wstop, wsender, winbox,
                   workerVars, prodVars, health, dispatched, executed,
                   overflowed, queued_at_stop>>

\* --------------------------------------------------------------- workers

\* Thread::new, the worker loop: take the next command
WorkerRecv(w) ==
    /\ wpc[w] = "recv"
    /\ winbox[w] # <<>>
    /\ winbox' = [winbox EXCEPT ![w] = Tail(@)]
    /\ IF Head(winbox[w]).t = "Process"
       THEN /\ wpc' = [wpc EXCEPT ![w] = "running"]
            /\ wjob' = [wjob EXCEPT ![w] = Head(winbox[w]).job]
       ELSE \* ThreadInput::StopSignal => break
            /\ wpc' = [wpc EXCEPT ![w] = "exited"]
            /\ UNCHANGED wjob
    /\ UNCHANGED <<cfgVars, scan, webVars, mgrVars, sched_pc, jobs, should_stop, threads,
                   chan, chan_open, runVars, cleanVars, busy, wstop, wsender,
                   hookVars, prodVars, health, dispatched, executed, overflowed,
                   queued_at_stop>>

\* the worker loop ends: its channel is empty and the sender was dropped
WorkerHangup(w) ==
    /\ wpc[w] = "recv"
    /\ winbox[w] = <<>>
    /\ ~wsender[w]
    /\ wpc' = [wpc EXCEPT ![w] = "exited"]
    /\ UNCHANGED <<cfgVars, scan, webVars, mgrVars, sched_pc, jobs, should_stop, threads,
                   chan, chan_open, runVars, cleanVars, busy, wstop, wsender,
                   winbox, wjob, hookVars, prodVars, health, dispatched,
                   executed, overflowed, queued_at_stop>>

\* hooks.status_hooks_iter(event): the status hooks run after job.process(),
\* none when it returned an error
StatusHooksForAnyResult(ok) == nhooks
StatusHooksNone(ok) == 0
StatusHooksToRun(ok) == IF ok THEN nhooks ELSE 0

\* job.process() returns, with Ok(output) or Err(error)
WorkerProcess(w) ==
    /\ wpc[w] = "running"
    /\ \E ok \in BOOLEAN :
        /\ wres' = [wres EXCEPT ![w] = IF ok THEN "ok" ELSE "err"]
        /\ whooks' = [whooks EXCEPT ![w] = StatusHooksToRun(ok)]
    /\ wexec' = [wexec EXCEPT ![w] = 1]
    /\ UNCHANGED wfail
    /\ wpc' = [wpc EXCEPT ![w] = "hooks"]
    /\ UNCHANGED <<cfgVars, scan, webVars, mgrVars, sched_pc, jobs, should_stop, threads,
                   chan, chan_open, runVars, cleanVars, busy, wstop, wsender,
                   winbox, wjob, prodVars, health, dispatched, executed,
                   overflowed, queued_at_stop>>

\* a worker that leaves the loop over the status hooks when one fails
WorkerStatusHookHaltsOnError(w) ==
    /\ wpc[w] = "hooks"
    /\ whooks[w] > 0
    /\ \E ok \in BOOLEAN :
          /\ wfail' = [wfail EXCEPT ![w] = IF ok THEN @ ELSE @ \cup {wexec[w]}]
          /\ whooks' = [whooks EXCEPT ![w] = IF ok THEN @ - 1 ELSE 0]
    /\ wexec' = [wexec EXCEPT ![w] = @ + 1]
    /\ UNCHANGED <<cfgVars, scan, webVars, mgrVars, sched_pc, jobs, should_stop, threads,
                   chan, chan_open, runVars, cleanVars, busy, wstop, wsender,
                   winbox, wpc, wjob, wres, prodVars, health, dispatched,
                   executed, overflowed, queued_at_stop>>

\* one turn of the loop over the status hooks: status_job.process(), whose
\* error, if any, is printed
WorkerStatusHook(w) ==
    /\ wpc[w] = "hooks"
    /\ whooks[w] > 0
    /\ \E ok \in BOOLEAN :
          wfail' = [wfail EXCEPT ![w] = IF ok THEN @ ELSE @ \cup {wexec[w]}]
    /\ whooks' = [whooks EXCEPT ![w] = @ - 1]
    /\ wexec' = [wexec EXCEPT ![w] = @ + 1]
    /\ UNCHANGED <<cfgVars, scan, webVars, mgrVars, sched_pc, jobs, should_stop, threads,
                   chan, chan_open, runVars, cleanVars, busy, wstop, wsender,
                   winbox, wpc, wjob, wres, prodVars, health, dispatched,
                   executed, overflowed, queued_at_stop>>

\* the loop over the status hooks is over
ChainDoneBeforeHooks(w) == TRUE
ChainDone(w) == whooks[w] = 0

\* a worker that sends JobEnded without having cleared its busy flag
WorkerFinishKeepsBusy(w) ==
    /\ wpc[w] = "hooks"
    /\ ChainDone(w)
    /\ executed' = executed \cup {wjob[w]}
    /\ wpc' = [wpc EXCEPT ![w] = "cleared"]
    /\ UNCHANGED <<cfgVars, scan, webVars, mgrVars, sched_pc, jobs, should_stop, threads,
                   chan, chan_open, runVars, cleanVars, busy, wstop, wsender,
                   winbox, wjob, hookVars, prodVars, health, dispatched,
                   overflowed, queued_at_stop>>

\* a worker that clears the busy flag of every worker at the end of its job
WorkerFinishClearsAll(w) ==
    /\ wpc[w] = "hooks"
    /\ ChainDone(w)
    /\ executed' = executed \cup {wjob[w]}
    /\ busy' = [v \in Workers |-> FALSE]
    /\ wpc' = [wpc EXCEPT ![w] = "cleared"]
    /\ UNCHANGED <<cfgVars, scan, webVars, mgrVars, sched_pc, jobs, should_stop, threads,
                   chan, chan_open, runVars, cleanVars, wstop, wsender,
                   winbox, wjob, hookVars, prodVars, health, dispatched,
                   overflowed, queued_at_stop>>

\* the job (and its status hooks) has run: busy_inner.store(false)
WorkerFinish(w) ==
    /\ wpc[w] = "hooks"
    /\ ChainDone(w)
    /\ executed' = executed \cup {wjob[w]}
    /\ busy' = [busy EXCEPT ![w] = FALSE]
    /\ wpc' = [wpc EXCEPT ![w] = "cleared"]
    /\ UNCHANGED <<cfgVars, scan, webVars, mgrVars, sched_pc, jobs, should_stop, threads,
                   chan, chan_open, runVars, cleanVars, wstop, wsender,
                   winbox, wjob, hookVars, prodVars, health, dispatched,
                   overflowed, queued_at_stop>>

\* processor_input.send(ProcessorInput::JobEnded).unwrap()
WorkerSendEnded(w) ==
    /\ wpc[w] = "cleared"
    /\ IF chan_open
       THEN /\ chan' = Append(chan, Msg("JobEnded", 0))
            /\ wpc' = [wpc EXCEPT ![w] = "recv"]
       ELSE /\ wpc' = [wpc EXCEPT ![w] = "panicked"]
            /\ UNCHANGED chan
    /\ wjob' = [wjob EXCEPT ![w] = 0]
    /\ whooks' = [whooks EXCEPT ![w] = 0]
    /\ wexec' = [wexec EXCEPT ![w] = 0]
    /\ wfail' = [wfail EXCEPT ![w] = {}]
    /\ UNCHANGED <<cfgVars, scan, webVars, mgrVars, sched_pc, jobs, should_stop, threads,
                   chan_open, runVars, cleanVars, busy, wstop, wsender,
                   winbox, wres, prodVars, health, dispatched, executed,
                   overflowed, queued_at_stop>>

\* ------------------------------------------------------------------ Next
Next ==
    \/ Start
    \/ StopCall
    \/ StopReturn
    \/ StopWaitFails
    \/ SendJob
    \/ SendHealth
    \/ HandleStopSignal
    \/ HandleJob
    \/ HandleJobEnded
    \/ HandleHealthStatus
    \/ RunJobsLoop
    \/ JoinDone
    \/ SchedExit
    \/ \E w \in Workers : WorkerRecv(w)
    \/ \E w \in Workers : WorkerHangup(w)
    \/ \E w \in Workers : WorkerProcess(w)
    \/ \E w \in Workers : WorkerStatusHook(w)
    \/ \E w \in Workers : WorkerFinish(w)
    \/ \E w \in Workers : WorkerSendEnded(w)

Spec == Init /\ [][Next]_vars

\* every thread that can take a step eventually takes one: the scheduler
\* thread, the worker threads and the thread blocked in stop()
FairSpec ==
    /\ Spec
    /\ WF_vars(HandleStopSignal \/ HandleJob \/ HandleJobEnded
                \/ HandleHealthStatus \/ RunJobsLoop \/ JoinDone \/ SchedExit)
    /\ WF_vars(StopReturn \/ StopWaitFails)
    /\ \A w \in Workers :
        WF_vars(WorkerRecv(w) \/ WorkerHangup(w) \/ WorkerProcess(w)
                \/ WorkerStatusHook(w) \/ WorkerFinish(w)
                \/ WorkerSendEnded(w))

\* the producer, the scheduler and the workers without shutdown and health
\* requests, one worker, one more job: what the overflow queue needs to
\* hold two jobs while a third runs and a fourth arrives
SendJobFifo == SendJobUpTo(MaxJobs + 1)

FifoInit == Init /\ max_threads = 1

FifoNext ==
    \/ Start
    \/ SendJobFifo
    \/ HandleJob
    \/ HandleJobEnded
    \/ RunJobsLoop
    \/ \E w \in Workers : WorkerRecv(w)
    \/ \E w \in Workers : WorkerProcess(w)
    \/ \E w \in Workers : WorkerStatusHook(w)
    \/ \E w \in Workers : WorkerFinish(w)
    \/ \E w \in Workers : WorkerSendEnded(w)

FifoSpec == FifoInit /\ [][FifoNext]_vars

\* the processor behind the HTTP front-end, with one worker, never stopped
WebInit ==
    /\ ProcessorInit
    /\ max_threads = 1
    /\ nhooks = 0
    /\ enable_health \in BOOLEAN
    /\ web_wait = 0
    /\ http_count = 0
    /\ http_last = NoRequest
    /\ hook_name = <<>>

WebNext ==
    \/ Start
    \/ ProcessHook
    \/ GetHealth
    \/ GetHealthReply
    \/ SendHealth
    \/ HandleJob
    \/ HandleJobEnded
    \/ HandleHealthStatus
    \/ RunJobsLoop
    \/ \E w \in Workers : WorkerRecv(w)
    \/ \E w \in Workers : WorkerProcess(w)
    \/ \E w \in Workers : WorkerFinish(w)
    \/ \E w \in Workers : WorkerSendEnded(w)

WebSpec == WebInit /\ [][WebNext]_vars

\* Thread::process called by run_job on the worker at position scan, with
\* the job that run_job holds: a rejected job stays with run_job, which moves
\* on to the next worker; an accepted one is sent and run_job returns
ThreadProcess ==
    /\ scan \in 1..Len(threads)
    /\ cur_job # 0
    /\ IF ThreadAccepts(threads[scan])
       THEN /\ busy' = [busy EXCEPT ![threads[scan]] = TRUE]
            /\ winbox' = [winbox EXCEPT ![threads[scan]] =
                              Append(@, Msg("Process", cur_job))]
            /\ cur_job' = 0
            /\ scan' = 0
       ELSE /\ scan' = scan + 1
            /\ UNCHANGED <<busy, winbox, cur_job>>
    /\ UNCHANGED <<cfgVars, webVars, mgrVars, sched_pc, jobs, should_stop,
                   threads, chan, chan_open, push_front, given, cleanVars,
                   wstop, wsender, workerVars, prodVars, health, dispatched,
                   executed, overflowed, queued_at_stop>>

\* run_job starts on a worker list whose workers are in any state a Thread
\* value can have (busy or not, marked stopping or not)
ThreadInit ==
    /\ max_threads \in 1..MaxThreads
    /\ nhooks = 0
    /\ WebIdle
    /\ mgr_input = TRUE
    /\ mgr_pc = "idle"
    /\ stops = 0
    /\ returned = 0
    /\ sched_pc = "run_jobs"
    /\ jobs = <<>>
    /\ should_stop = FALSE
    /\ threads = SpawnThreads(max_threads)
    /\ chan = <<>>
    /\ chan_open = TRUE
    /\ cur_job \in 1..MaxJobs
    /\ push_front \in BOOLEAN
    /\ given = {}
    /\ scan = 1
    /\ to_remove = <<>>
    /\ joining = 0
    /\ busy \in [Workers -> BOOLEAN]
    /\ wstop \in [Workers -> BOOLEAN]
    /\ wsender = [w \in Workers |-> w <= max_threads]
    /\ winbox = [w \in Workers |-> <<>>]
    /\ wpc = [w \in Workers |-> IF w <= max_threads THEN "recv" ELSE "none"]
    /\ wjob = [w \in Workers |-> 0]
    /\ wres = [w \in Workers |-> "none"]
    /\ whooks = [w \in Workers |-> 0]
    /\ wexec = [w \in Workers |-> 0]
    /\ wfail = [w \in Workers |-> {}]
    /\ next_job = MaxJobs + 1
    /\ health_sent = 0
    /\ health = <<>>
    /\ dispatched = <<>>
    /\ executed = {}
    /\ overflowed = <<>>
    /\ queued_at_stop = <<>>

ThreadNext == ThreadProcess

ThreadSpec == ThreadInit /\ [][ThreadNext]_vars

\* one worker and a hooks directory with up to MaxHooks + 1 status hooks
\* for the event of a job, never stopped
HookInit ==
    /\ max_threads = 1
    /\ nhooks \in 1..(MaxHooks + 1)
    /\ ProcessorNew
    /\ WebIdle

HookNext ==
    \/ Start
    \/ SendJob
    \/ HandleJob
    \/ HandleJobEnded
    \/ RunJobsLoop
    \/ \E w \in Workers : WorkerRecv(w)
    \/ \E w \in Workers : WorkerProcess(w)
    \/ \E w \in Workers : WorkerStatusHook(w)
    \/ \E w \in Workers : WorkerFinish(w)
    \/ \E w \in Workers : WorkerSendEnded(w)

HookSpec == HookInit /\ [][HookNext]_vars

\* the processor with requesters of the health status that may go away
\* before they are answered, never stopped
ProbeNext ==
    \/ Start
    \/ SendJob
    \/ SendHealth
    \/ SendHealthDropped
    \/ HandleJob
    \/ HandleJobEnded
    \/ HandleHealthStatus
    \/ RunJobsLoop
    \/ \E w \in Workers : WorkerRecv(w)
    \/ \E w \in Workers : WorkerHangup(w)
    \/ \E w \in Workers : WorkerProcess(w)
    \/ \E w \in Workers : WorkerStatusHook(w)
    \/ \E w \in Workers : WorkerFinish(w)
    \/ \E w \in Workers : WorkerSendEnded(w)

ProbeSpec == Init /\ [][ProbeNext]_vars

\* the ProcessorManager and every clone of its input sender go out of scope
\* without stop(): the senders left are the one Processor::new stored in
\* the Processor itself and the clones the workers got from it
DropManager ==
    /\ mgr_input
    /\ mgr_pc = "idle"
    /\ mgr_input' = FALSE
    /\ UNCHANGED <<cfgVars, scan, webVars, mgr_pc, stops, returned, sched_pc, jobs,
                   should_stop, threads, chan, chan_open, runVars, cleanVars,
                   busy, wstop, wsender, winbox, workerVars, prodVars, health,
                   dispatched, executed, overflowed, queued_at_stop>>

\* the processor whose owner goes away without stopping it; each thread that
\* can take a step eventually takes one
DropNext ==
    \/ Start
    \/ SendJob
    \/ DropManager
    \/ HandleJob
    \/ HandleJobEnded
    \/ RunJobsLoop
    \/ \E w \in Workers : WorkerRecv(w)
    \/ \E w \in Workers : WorkerProcess(w)
    \/ \E w \in Workers : WorkerStatusHook(w)
    \/ \E w \in Workers : WorkerFinish(w)
    \/ \E w \in Workers : WorkerSendEnded(w)

DropSpec ==
    /\ Init
    /\ [][DropNext]_vars
    /\ WF_vars(HandleJob \/ HandleJobEnded \/ RunJobsLoop)
    /\ \A w \in Workers :
        WF_vars(WorkerRecv(w) \/ WorkerProcess(w)
                \/ WorkerStatusHook(w) \/ WorkerFinish(w)
                \/ WorkerSendEnded(w))

\* the processor with at least one worker that is never stopped: a finite
\* set of jobs comes in, every job execution and every hook terminates, and
\* each thread that can take a step eventually takes one
QueueInit == Init /\ max_threads >= 1

QueueNext ==
    \/ Start
    \/ SendJob
    \/ HandleJob
    \/ HandleJobEnded
    \/ RunJobsLoop
    \/ \E w \in Workers : WorkerRecv(w)
    \/ \E w \in Workers : WorkerProcess(w)
    \/ \E w \in Workers : WorkerStatusHook(w)
    \/ \E w \in Workers : WorkerFinish(w)
    \/ \E w \in Workers : WorkerSendEnded(w)

QueueSpec ==
    /\ QueueInit
    /\ [][QueueNext]_vars
    /\ WF_vars(HandleJob \/ HandleJobEnded \/ RunJobsLoop)
    /\ \A w \in Workers :
        WF_vars(WorkerRecv(w) \/ WorkerProcess(w)
                \/ WorkerStatusHook(w) \/ WorkerFinish(w)
                \/ WorkerSendEnded(w))

\* ================================================================ claims

\* C1: once the scheduler runs, 0 <= busy workers <= workers in the list
\* <= max_threads; the list holds exactly max_threads workers right after
\* the start and never grows afterwards.
C1_WorkerBounds ==
    /\ [](sched_pc # "none" =>
            /\ 0 <= busy_threads
            /\ busy_threads <= Len(threads)
            /\ Len(threads) <= max_threads
            /\ Cardinality({w \in Workers : wpc[w] # "none"}) = max_threads)
    /\ [][sched_pc = "none" /\ sched_pc' # "none" =>
            Len(threads') = max_threads]_vars
    /\ [][sched_pc # "none" => Len(threads') <= Len(threads)]_vars

\* C1 witness: a full pool, every worker of the list busy, a job waiting
C1_Witness ==
    /\ max_threads = MaxThreads
    /\ Len(threads) = max_threads
    /\ busy_threads = max_threads
    /\ jobs # <<>>

\* C2: jobs of the single producer (it submits 1, 2, 3, .. in that order)
\* are dispatched to workers in the order they were submitted.
C2_DispatchInSubmissionOrder ==
    \A i, k \in 1..Len(dispatched) : i < k => dispatched[i] < dispatched[k]

\* position of job j in the history h (0: not there)
Pos(h, j) == IF j \in Range(h) THEN CHOOSE i \in 1..Len(h) : h[i] = j ELSE 0

\* the overflow queue as the loop of run_jobs holds it: the job it has popped
\* and not yet offered to the workers is still its head
QueueView == IF sched_pc = "run_jobs" THEN <<cur_job>> \o jobs ELSE jobs

\* C3: of two jobs that were both put in the overflow queue, the one that
\* entered it first is dispatched first; and no step changes the relative
\* order of two jobs that stay in the queue.
C3_OverflowFifo ==
    /\ [](\A i, k \in 1..Len(overflowed) :
            (i < k /\ overflowed[k] \in Range(dispatched)) =>
                /\ overflowed[i] \in Range(dispatched)
                /\ Pos(dispatched, overflowed[i]) < Pos(dispatched, overflowed[k]))
    /\ [][\A a, b \in Range(QueueView) \cap Range(QueueView') :
            Pos(QueueView, a) < Pos(QueueView, b) =>
                Pos(QueueView', a) < Pos(QueueView', b)]_vars

\* C4: once stop() has returned, the event loop has exited, the worker list
\* is empty, no worker is busy and every dispatched job has finished.
C4_StopReturnedMeansDrained ==
    returned >= 1 =>
        /\ sched_pc \in {"exiting", "done"}
        /\ threads = <<>>
        /\ \A w \in Workers : ~busy[w]
        /\ Range(dispatched) \subseteq executed

\* C4 witness: stop() has returned and jobs were waiting, hence workers at
\* work, when StopSignal was handled
C4_Witness ==
    /\ returned >= 1
    /\ queued_at_stop # <<>>
    /\ Len(dispatched) >= 2

\* C5: with max_threads >= 1, once stop() has sent StopSignal (every running
\* job finishes: FairSpec), the scheduler leaves its loop by the normal path
\* and stop() returns.
C5_ShutdownTerminates ==
    (max_threads >= 1 /\ mgr_pc = "waiting" /\ returned = 0)
        ~> (returned >= 1 /\ sched_pc \in {"exiting", "done"})

\* C6: a Job message the scheduler consumes when should_stop is set is
\* dropped: it is neither dispatched nor put in the overflow queue.
C6_JobAfterStopDropped ==
    [][(/\ should_stop
        /\ sched_pc = "recv"
        /\ chan # <<>>
        /\ Head(chan).t = "Job"
        /\ chan' = Tail(chan))
       => (/\ jobs' = jobs
           /\ dispatched' = dispatched
           /\ sched_pc' = "recv"
           /\ busy' = busy
           /\ winbox' = winbox)]_vars

\* C7 as stated: a job that is in the overflow queue when StopSignal is
\* handled is never dispatched afterwards.
C7_QueuedAtStopNeverDispatched ==
    \A j \in Range(queued_at_stop) : j \notin Range(dispatched)

\* C7 amended: after StopSignal the queue is still served.  A JobEnded
\* handled with should_stop set and a non-empty queue neither runs the
\* cleanup nor leaves the loop: the head of the queue goes to a worker when
\* one of the list is idle, and the queue stays as it is when none is.
C7_QueueServedAfterStop ==
    [][(/\ should_stop
        /\ sched_pc = "recv"
        /\ chan # <<>>
        /\ Head(chan).t = "JobEnded"
        /\ chan' = Tail(chan)
        /\ jobs # <<>>)
       => (/\ threads' = threads
           /\ sched_pc' \in {"recv", "run_jobs"}
           /\ IF \E i \in 1..Len(threads) : ~busy[threads[i]]
              THEN /\ dispatched' = Append(dispatched, Head(jobs))
                   /\ QueueView' = Tail(jobs)
              ELSE /\ dispatched' = dispatched
                   /\ jobs' = jobs)]_vars

\* C7 witness: a job that was queued when StopSignal was handled has been
\* dispatched
C7_Witness ==
    /\ should_stop
    /\ \E j \in Range(queued_at_stop) : j \in Range(dispatched)

\* C8: after a first stop() has returned, a further stop() returns normally.
C8_StopIdempotent ==
    returned >= 1 => mgr_pc # "panicked"

\* C9: the reply to HealthStatus carries the length of the overflow queue
\* and the number of workers of the list whose busy flag is set, as they are
\* when the scheduler takes the message.
C9_HealthSnapshot ==
    [][(/\ sched_pc = "recv"
        /\ chan # <<>>
        /\ Head(chan).t = "HealthStatus"
        /\ chan' = Tail(chan))
       => health' = Append(health,
            [queue_size |-> Len(jobs),
             active_jobs |-> Cardinality({i \in 1..Len(threads) : busy[threads[i]]})])]_vars

\* C9 witness: a reply that reports waiting jobs, busy workers and an idle one
C9_Witness ==
    \E i \in 1..Len(health) :
        /\ health[i].queue_size >= 1
        /\ health[i].active_jobs >= 1
        /\ health[i].active_jobs < max_threads

\* every Job message is handled, every dispatched job has finished, every
\* JobEnded is handled, and no StopSignal was sent
Quiescent ==
    /\ max_threads >= 1
    /\ sched_pc = "recv"
    /\ ~should_stop
    /\ \A i \in 1..Len(chan) : chan[i].t = "HealthStatus"
    /\ Range(dispatched) \subseteq executed
    /\ \A w \in Workers : wpc[w] \in {"none", "recv"}

\* C10: in a quiescent state the overflow queue is empty and no worker is
\* busy, so that HealthStatus is answered with queue_size 0, active_jobs 0.
C10_Quiescence ==
    Quiescent =>
        /\ jobs = <<>>
        /\ \A w \in Workers : ~busy[w]
        /\ HealthDetails = [queue_size |-> 0, active_jobs |-> 0]

\* C10 witness: quiescence after jobs went through the overflow queue
C10_Witness ==
    /\ Quiescent
    /\ overflowed # <<>>
    /\ Len(dispatched) = MaxJobs

\* the jobs whose Job message the scheduler has taken from its channel
Admitted ==
    {j \in 1..(next_job - 1) : \A i \in 1..Len(chan) : chan[i] # Msg("Job", j)}

\* C11: in every HealthStatus reply, queue_size + active_jobs is the number
\* of jobs whose Job message was handled and whose worker has not yet
\* cleared busy for them (status hooks are no jobs of their own here).
C11_HealthCountsUnfinished ==
    [][(/\ sched_pc = "recv"
        /\ chan # <<>>
        /\ Head(chan).t = "HealthStatus"
        /\ chan' = Tail(chan))
       => (/\ Len(health') = Len(health) + 1
           /\ health'[Len(health')].queue_size + health'[Len(health')].active_jobs
                = Cardinality(Admitted \ executed))]_vars

\* C11 witness: a reply given while every submitted job is unfinished, some
\* waiting and some running, and a status hook is being run
C11_Witness ==
    /\ health # <<>>
    /\ health[Len(health)].queue_size + health[Len(health)].active_jobs = MaxJobs
    /\ health[Len(health)].queue_size >= 1
    /\ \E w \in Workers : wexec[w] >= 2 /\ busy[w]

\* C12: handling HealthStatus changes neither the queue, the worker list,
\* the busy flags nor should_stop, hence no later dispatch; its reply is
\* sent in the handler, before the next message is taken.
C12_HealthReadOnly ==
    /\ [][(/\ sched_pc = "recv"
           /\ chan # <<>>
           /\ Head(chan).t = "HealthStatus"
           /\ chan' = Tail(chan))
          => (/\ UNCHANGED <<jobs, threads, busy, should_stop, wstop, winbox,
                             dispatched, overflowed, sched_pc, runVars,
                             cleanVars>>
              /\ Len(health') = Len(health) + 1)]_vars
    /\ [](Len(health) + Cardinality({i \in 1..Len(chan) : chan[i].t = "HealthStatus"})
            = health_sent)

\* C12 witness: a probe was answered while a job waited in the queue, and
\* every job was dispatched all the same
C12_Witness ==
    /\ health # <<>>
    /\ health[1].queue_size >= 1
    /\ health[1].active_jobs >= 1
    /\ Len(dispatched) = MaxJobs

\* C13 as stated: with max_threads = 0 the scheduler is rejected at
\* construction, no event loop is started.
C13_ZeroThreadsRejected ==
    max_threads = 0 => (sched_pc = "none" /\ ~mgr_input)

\* C13 amended: max_threads = 0 is accepted; the event loop runs with an
\* empty worker list, puts every job it handles in the overflow queue, in
\* submission order, and never dispatches or executes one.
C13_ZeroThreadsQueuesForever ==
    max_threads = 0 =>
        /\ threads = <<>>
        /\ \A w \in Workers : wpc[w] = "none" /\ ~busy[w]
        /\ dispatched = <<>>
        /\ executed = {}
        /\ sched_pc = "recv" =>
            jobs = [i \in 1..Cardinality(Admitted) |-> i]

\* C13 witness: the event loop runs with max_threads = 0 and holds jobs
C13_Witness ==
    /\ max_threads = 0
    /\ sched_pc = "recv"
    /\ Len(jobs) >= 2

\* worker w takes a step of its own between the two states
WorkerSteps(w) ==
    \/ wpc'[w] # wpc[w]
    \/ wexec'[w] # wexec[w]

\* C14: the worker that ran a successful job runs its K status hooks itself,
\* one after the other, before it clears busy: busy is set during all K + 1
\* executions, and the chain ends with one JobEnded.
C14_StatusHooksInline ==
    /\ [](\A w \in Workers : wpc[w] \in {"running", "hooks"} => busy[w])
    /\ [][\A w \in Workers :
            /\ (busy[w] /\ ~busy'[w] /\ wres[w] = "ok")
                  => (wexec[w] = nhooks + 1 /\ wpc'[w] = "cleared")
            /\ (wpc[w] \in {"running", "hooks"} /\ WorkerSteps(w))
                  => (chan' = chan /\ wjob'[w] = wjob[w]
                      /\ wexec'[w] = wexec[w] + 1 - (IF wpc'[w] = "cleared" THEN 1 ELSE 0))
            /\ (wpc[w] = "cleared" /\ WorkerSteps(w) /\ chan_open)
                  => (chan' = Append(chan, Msg("JobEnded", 0))
                      /\ wpc'[w] = "recv")]_vars

\* C14 witness: a worker has cleared busy after a job and its status hooks
C14_Witness ==
    \E w \in Workers :
        /\ wpc[w] = "cleared"
        /\ wres[w] = "ok"
        /\ nhooks >= 1
        /\ wexec[w] = nhooks + 1

\* number of Job messages waiting in the scheduler's input channel
JobMessages(c) == Cardinality({i \in 1..Len(c) : c[i].t = "Job"})

\* C15 as stated: a worker executes no status hook itself and, when its
\* successful job is over, posts one Job message per status hook to the
\* scheduler's input channel.
C15_StatusHooksPostedAsJobs ==
    /\ [](\A w \in Workers : wexec[w] <= 1)
    /\ [][\A w \in Workers :
            (wpc[w] = "cleared" /\ WorkerSteps(w) /\ wres[w] = "ok" /\ chan_open)
                => JobMessages(chan') = JobMessages(chan) + nhooks]_vars

\* C15 amended: the status hooks of a successful job are executed by the
\* worker itself, and a worker never posts a Job message: the only message a
\* worker puts in the scheduler's input channel is JobEnded, so status hooks
\* never pass through the dispatch or the overflow queue.
C15_StatusHooksNeverPosted ==
    /\ [](\A w \in Workers :
            (wpc[w] = "cleared" /\ wres[w] = "ok") => wexec[w] - 1 = nhooks)
    /\ [][\A w \in Workers :
            (wpc[w] \in {"running", "hooks", "cleared"} /\ WorkerSteps(w))
                => /\ JobMessages(chan') = JobMessages(chan)
                   /\ jobs' = jobs
                   /\ dispatched' = dispatched
                   /\ \/ chan' = chan
                      \/ chan' = Append(chan, Msg("JobEnded", 0))]_vars

\* C15 witness: a worker is running a status hook itself while a submitted
\* job waits in the overflow queue
C15_Witness ==
    \E w \in Workers :
        /\ wpc[w] = "hooks"
        /\ wexec[w] >= 2
        /\ jobs # <<>>
        /\ JobMessages(chan) = 0

\* how many times x occurs in the sequence s
Occurrences(s, x) == Cardinality({i \in 1..Len(s) : s[i] = x})

\* how many times job j is held by worker w: as a Process command waiting in
\* its channel, or as the job it is executing
HeldBy(w, j) ==
    Occurrences(winbox[w], Msg("Process", j))
    + (IF wpc[w] \in {"running", "hooks"} /\ wjob[w] = j THEN 1 ELSE 0)

\* C16: a failed primary job runs no status hook; the worker still clears
\* busy and sends one JobEnded; the scheduler is not disturbed and the worker
\* is given later jobs; the failed job is not queued or dispatched again.
C16_FailedJobNoStatusHooks ==
    /\ [](\A w \in Workers :
            (wpc[w] \in {"hooks", "cleared"} /\ wres[w] = "err")
                => (wexec[w] = 1 /\ whooks[w] = 0))
    /\ [](\A j \in executed :
            /\ Occurrences(QueueView, j) = 0
            /\ \A w \in Workers : HeldBy(w, j) = 0
            /\ Occurrences(dispatched, j) = 1)
    /\ [][\A w \in Workers :
            /\ (wpc[w] = "hooks" /\ wres[w] = "err" /\ WorkerSteps(w))
                  => /\ wpc'[w] = "cleared"
                     /\ busy[w] /\ ~busy'[w]
                     /\ UNCHANGED <<sched_pc, jobs, chan, winbox, dispatched>>
            /\ (wpc[w] = "cleared" /\ wres[w] = "err" /\ WorkerSteps(w) /\ chan_open)
                  => /\ wpc'[w] = "recv"
                     /\ chan' = Append(chan, Msg("JobEnded", 0))
                     /\ UNCHANGED <<sched_pc, jobs, busy, winbox, dispatched>>]_vars

\* C16 witness: a worker whose last job failed, though a status hook matches,
\* is executing a later job
C16_Witness ==
    \E w \in Workers :
        /\ wres[w] = "err"
        /\ wpc[w] = "running"
        /\ busy[w]
        /\ nhooks >= 1
        /\ wjob[w] >= 2
        /\ executed # {}

\* the scheduler's event loop is running
SchedulerRunning == sched_pc \in {"recv", "run_jobs", "join"}

\* how many times job j is held by the workers 1..n
RECURSIVE HeldInWorkers(_, _)
HeldInWorkers(n, j) ==
    IF n = 0 THEN 0 ELSE HeldBy(n, j) + HeldInWorkers(n - 1, j)

\* in how many places job j is: overflow queue, workers, finished
Places(j) ==
    Occurrences(QueueView, j)
    + HeldInWorkers(MaxThreads, j)
    + (IF j \in executed THEN 1 ELSE 0)

\* C17: while the scheduler runs, every job it has handled is in exactly one
\* place (overflow queue, one worker, finished), a job it has not handled is
\* in none, and no job is dispatched twice.
C17_JobConservation ==
    /\ SchedulerRunning =>
          \A j \in 1..MaxJobs : Places(j) = (IF j \in Admitted THEN 1 ELSE 0)
    /\ \A j \in 1..MaxJobs : Occurrences(dispatched, j) <= 1

\* C17 witness: one job waits in the queue, one is in a worker, one is over
C17_Witness ==
    /\ SchedulerRunning
    /\ jobs # <<>>
    /\ executed # {}
    /\ \E w \in Workers : wpc[w] = "running" /\ wjob[w] \notin executed
    /\ Cardinality(Admitted) = MaxJobs

\* the front-end has received a request for the given path
RequestStep(path) == http_count' = http_count + 1 /\ http_last'.path = path

\* C18: with health disabled GET /health is answered Forbidden and the
\* front-end sends no HealthStatus; the scheduler answers every HealthStatus
\* it receives with the snapshot of its queue and busy workers, whatever the
\* option is.
C18_HealthDisabled ==
    /\ [][(~enable_health /\ RequestStep("health"))
            => (http_last'.status = 403 /\ chan' = chan /\ web_wait' = 0)]_vars
    /\ [](~enable_health =>
            \A i \in 1..Len(chan) : chan[i] # Msg("HealthStatus", 1))
    /\ [][(sched_pc = "recv" /\ chan # <<>> /\ Head(chan).t = "HealthStatus"
           /\ chan' = Tail(chan))
            => /\ Len(health') = Len(health) + 1
               /\ health'[Len(health')].queue_size = Len(jobs)
               /\ health'[Len(health')].active_jobs
                     = Cardinality({i \in 1..Len(threads) : busy[threads[i]]})
               /\ health'[Len(health')].active_jobs <= max_threads]_vars

\* C18 witness: health is disabled, /health was answered Forbidden, and a
\* HealthStatus sent directly was answered while the worker was busy
C18_Witness ==
    /\ ~enable_health
    /\ http_last.path = "health"
    /\ http_last.status = 403
    /\ health # <<>>
    /\ health[1].active_jobs = 1

\* C19: a /hook/<name> request sends one Job, named after the hook, exactly
\* when the hook exists and the request is validated as an execute request;
\* unknown hook: 404, validation failure or internal hook: 403, ping: 200,
\* each without a message.
C19_JobIffValidated ==
    /\ [](Len(hook_name) = next_job - 1)
    /\ [][RequestStep("hook") =>
            LET r == http_last'
                valid == r.secret \in {Absent, "testing"}
                         /\ r.ip \in {Absent, "source"}
                execute == r.hook = "example" /\ valid
                           /\ r.request_type # "ping"
            IN  IF execute
                THEN /\ r.status = 200
                     /\ r.job = next_job
                     /\ chan' = Append(chan, Msg("Job", next_job))
                     /\ hook_name' = Append(hook_name, r.hook)
                     /\ next_job' = next_job + 1
                ELSE /\ r.status = (IF r.hook = "invalid" THEN 404
                                    ELSE IF r.hook = "status-example" \/ ~valid
                                         THEN 403
                                    ELSE 200)
                     /\ r.job = 0
                     /\ UNCHANGED <<chan, hook_name, next_job>>]_vars

\* C19 witness: of three requests, one sent nothing and the last one, with
\* the right secret, sent the second job
C19_Witness ==
    /\ http_count = 3
    /\ http_last.status = 200
    /\ http_last.secret = "testing"
    /\ http_last.job = 2
    /\ hook_name = <<"example", "example">>

\* worker w was never given a job
NeverWorked(w) == ~busy[w] /\ wres[w] = "none" /\ wpc[w] = "recv" /\ winbox[w] = <<>>

\* C20: with should_stop set, cleanup_threads ends without error, stops and
\* joins idle workers only, and leaves no worker in the list that was idle
\* when it was called.
C20_CleanupRemovesIdleWorkers ==
    /\ [](sched_pc # "panicked")
    /\ [][\A w \in Workers : (~wstop[w] /\ wstop'[w]) => ~busy[w]]_vars
    /\ [][(should_stop' /\ sched_pc \in {"recv", "join"}
           /\ sched_pc' \in {"recv", "notify"} /\ threads' # threads)
            => \A i \in 1..Len(threads') : ~NeverWorked(threads'[i])]_vars

\* C21: with at least one worker configured, the scheduler leaves its
\* event loop only with an empty worker list and an empty overflow queue;
\* handling StopSignal with a job in the queue does not leave the loop.
C21_LoopExitsOnlyWhenDrained ==
    /\ []((max_threads >= 1 /\ sched_pc \in {"notify", "exiting", "done"})
            => (threads = <<>> /\ jobs = <<>>))
    /\ [][(max_threads >= 1 /\ sched_pc = "recv" /\ chan # <<>>
           /\ Head(chan).t = "StopSignal" /\ chan' = Tail(chan) /\ jobs # <<>>)
            => sched_pc' \notin {"notify", "exiting", "done"}]_vars

\* the step sends a Process command to worker w
DispatchTo(w) ==
    /\ Len(winbox'[w]) = Len(winbox[w]) + 1
    /\ winbox'[w][Len(winbox'[w])].t = "Process"

\* the position of worker w in the worker list is i, and every worker
\* before it has its busy flag set
FirstIdleAt(w, i) ==
    /\ i \in 1..Len(threads)
    /\ threads[i] = w
    /\ \A k \in 1..(i - 1) : busy[threads[k]]

\* C22 as stated: a job goes to the first worker of the list whose busy
\* flag is false, the flag is set with the dispatch, and a worker is never
\* given two jobs by the handling of one input message.
C22_OneJobPerWorkerAndMessage ==
    [][\A w \in Workers :
          DispatchTo(w) =>
              /\ ~busy[w] /\ busy'[w]
              /\ \E i \in 1..Len(threads) : FirstIdleAt(w, i)
              /\ w \notin given]_vars

\* C22 amended: a job goes to the first worker of the list whose busy flag
\* is false when it is inspected, the flag is set before the Process command
\* can be read, and no Process command is ever sent to a worker whose flag is
\* set; the handling of one input message gives a worker a second job only
\* when that worker has already finished the first one and cleared busy.
C22_DispatchFirstIdle ==
    /\ [](\A w \in Workers :
            (\E i \in 1..Len(winbox[w]) : winbox[w][i].t = "Process")
                => busy[w])
    /\ [][\A w \in Workers :
            DispatchTo(w) =>
                /\ ~busy[w] /\ busy'[w]
                /\ \E i \in 1..Len(threads) : FirstIdleAt(w, i)
                /\ Len(dispatched') = Len(dispatched) + 1
                /\ winbox'[w] = Append(winbox[w],
                        Msg("Process", dispatched'[Len(dispatched')]))
                /\ \A v \in Workers \ {w} : busy'[v] = busy[v]
                /\ w \in given =>
                      (winbox[w] = <<>> /\ wpc[w] \in {"cleared", "recv"})]_vars

\* C22 witness: run_jobs is about to dispatch its next job, and the first
\* idle worker of the list is one it has already given a job
C22_Witness ==
    /\ sched_pc = "run_jobs"
    /\ cur_job # 0
    /\ \E w \in given : \E i \in 1..Len(threads) :
          ~busy[w] /\ FirstIdleAt(w, i)

\* C23: Thread::process on a worker that is marked stopping or busy hands
\* the job back and changes nothing; on an idle worker that is not stopping
\* it sets busy, puts one Process(job) in the worker's channel and accepts.
C23_ProcessRejectsOrAccepts ==
    [][\A w \in Workers :
          (scan \in 1..Len(threads) /\ threads[scan] = w /\ scan' # scan) =>
              IF wstop[w] \/ busy[w]
              THEN /\ cur_job' = cur_job
                   /\ busy' = busy
                   /\ winbox' = winbox
                   /\ wstop' = wstop
                   /\ scan' = scan + 1
              ELSE /\ cur_job' = 0
                   /\ busy'[w]
                   /\ winbox'[w] = Append(winbox[w], Msg("Process", cur_job))
                   /\ \A v \in Workers \ {w} :
                         busy'[v] = busy[v] /\ winbox'[v] = winbox[v]
                   /\ wstop' = wstop]_vars

\* C23 witness: the first worker, marked stopping, handed the job back
\* unchanged, and the second one, idle, accepted it
C23_Witness ==
    /\ cur_job = 0
    /\ wstop[1] /\ ~busy[1] /\ winbox[1] = <<>>
    /\ ~wstop[2] /\ busy[2] /\ Len(winbox[2]) = 1

\* worker w, once spawned, takes a step of its own
SpawnedWorkerSteps(w) == wpc[w] # "none" /\ WorkerSteps(w)

\* C24: busy goes from false to true only in a dispatch step of the
\* scheduler, and from true to false only in the step of that worker that
\* ends its job; a worker step changes nothing of the scheduler and no other
\* worker's flag, and puts at most a JobEnded in the input channel.
C24_SingleMutator ==
    [][\A w \in Workers :
          /\ (~busy[w] /\ busy'[w]) =>
                /\ sched_pc \in {"recv", "run_jobs"}
                /\ DispatchTo(w)
                /\ \A v \in Workers : ~SpawnedWorkerSteps(v)
          /\ (busy[w] /\ ~busy'[w]) =>
                /\ wpc[w] = "hooks" /\ whooks[w] = 0 /\ wpc'[w] = "cleared"
                /\ \A v \in Workers \ {w} : ~SpawnedWorkerSteps(v)
                /\ sched_pc' = sched_pc
          /\ SpawnedWorkerSteps(w) =>
                /\ UNCHANGED <<jobs, threads, should_stop, sched_pc, cur_job,
                               push_front, given, to_remove, joining,
                               dispatched, wstop>>
                /\ winbox'[w] = winbox[w] \/ winbox'[w] = Tail(winbox[w])
                /\ \A v \in Workers \ {w} :
                      busy'[v] = busy[v] /\ winbox'[v] = winbox[v]
                /\ \/ chan' = chan
                   \/ /\ wpc[w] = "cleared"
                      /\ chan' = Append(chan, Msg("JobEnded", 0))]_vars

\* C24 witness: one worker has cleared its flag and sent JobEnded while
\* another one is busy with a job and a third job waits in the queue
C24_Witness ==
    \E w, v \in Workers :
        /\ ~busy[w] /\ wpc[w] = "recv" /\ w \in Range(threads)
        /\ busy[v] /\ wpc[v] = "running"
        /\ jobs # <<>>
        /\ \E i \in 1..Len(chan) : chan[i].t = "JobEnded"

\* C25: a worker has cleared busy for its job, failed or not, when it sends
\* JobEnded; a busy flag that is set stands for one job that has not
\* finished, so the sender of a JobEnded the scheduler handles is idle or
\* busy with a job dispatched later.
C25_BusyClearedBeforeJobEnded ==
    /\ [][\A w \in Workers :
            (SpawnedWorkerSteps(w) /\ chan' # chan) =>
                /\ chan' = Append(chan, Msg("JobEnded", 0))
                /\ ~busy[w] \/ winbox[w] # <<>>
                /\ wjob[w] \in executed
                /\ wres[w] \in {"ok", "err"}
                /\ busy'[w] = busy[w]]_vars
    /\ [](\A w \in Workers :
            busy[w] => \E j \in 1..MaxJobs :
                          /\ j \notin executed
                          /\ HeldBy(w, j) = 1
                          /\ \A k \in 1..MaxJobs : k # j => HeldBy(w, k) = 0)
    /\ [](\A w \in Workers :
            wpc[w] = "cleared" =>
                (wjob[w] \in executed /\ (busy[w] => winbox[w] # <<>>)))

\* C25 witness: the scheduler is about to handle the JobEnded of a failed
\* job, and the single worker is already busy with a job dispatched later
C25_Witness ==
    /\ max_threads = 1
    /\ sched_pc = "recv"
    /\ chan # <<>>
    /\ Head(chan).t = "JobEnded"
    /\ busy[1]
    /\ wres[1] = "err"
    /\ winbox[1] # <<>>
    /\ executed # {}

\* the jobs worker w has been sent and has not finished executing
Pending(w) ==
    Cardinality({i \in 1..Len(winbox[w]) : winbox[w][i].t = "Process"})
    + (IF wpc[w] \in {"running", "hooks"} THEN 1 ELSE 0)

\* the thread of worker w ends in this step
WorkerEnds(w) ==
    wpc[w] \notin {"exited", "panicked"} /\ wpc'[w] \in {"exited", "panicked"}

\* C26 as stated: a worker has at most one unfinished job, is sent no job
\* while it has one, and its thread ends only by reading a stop command
\* between two jobs.
C26_ExitsOnlyOnStopCommand ==
    /\ [](\A w \in Workers : Pending(w) <= 1)
    /\ [][\A w \in Workers : DispatchTo(w) => Pending(w) = 0]_vars
    /\ [][\A w \in Workers :
            WorkerEnds(w) =>
                /\ wpc[w] = "recv" /\ wpc'[w] = "exited"
                /\ winbox[w] # <<>>
                /\ Head(winbox[w]).t = "StopSignal"]_vars

\* C26, the part that holds in every behaviour: a worker has at most one
\* unfinished job and is sent no job while it has one; its thread never ends
\* while a job or a status hook is executing.  It ends between two jobs, on
\* reading a stop command or on finding its channel closed once the
\* scheduler is gone, or at the JobEnded send, which fails when the
\* scheduler's channel is closed.
C26_OneJobAtATime ==
    /\ [](\A w \in Workers : Pending(w) <= 1)
    /\ [][\A w \in Workers : DispatchTo(w) => Pending(w) = 0]_vars
    /\ [][\A w \in Workers :
            WorkerEnds(w) =>
                \/ /\ wpc[w] = "recv" /\ wpc'[w] = "exited"
                   /\ Pending(w) = 0
                   /\ \/ winbox[w] # <<>> /\ Head(winbox[w]).t = "StopSignal"
                      \/ winbox[w] = <<>> /\ ~wsender[w]
                              /\ sched_pc \in {"panicked", "done"}
                \/ /\ wpc[w] = "cleared" /\ wpc'[w] = "panicked"
                   /\ ~chan_open
                   /\ wjob[w] \in executed
                   /\ whooks[w] = 0]_vars

\* one worker was stopped after its job, the other one, never stopped, has
\* left its loop because the scheduler is gone
C26_Witness ==
    \E w, v \in Workers :
        /\ wpc[w] = "exited" /\ wstop[w]
        /\ wpc[v] = "exited" /\ ~wstop[v]
        /\ executed # {}

\* the scheduler takes a JobEnded message in this step
HandlesJobEnded ==
    /\ sched_pc = "recv"
    /\ chan # <<>>
    /\ Head(chan).t = "JobEnded"
    /\ chan' = Tail(chan)

\* C27: on JobEnded with a non-empty queue the head of the queue is offered
\* to the workers; with no idle worker it goes back to the head and the
\* queue is as before; with an empty queue and should_stop false, handling
\* JobEnded changes nothing.
C27_JobEndedRequeuesAtHead ==
    [][HandlesJobEnded =>
          /\ (jobs # <<>> /\ \A i \in 1..Len(threads) : busy[threads[i]]) =>
                /\ jobs' = jobs
                /\ sched_pc' = "recv"
                /\ UNCHANGED <<dispatched, busy, winbox, threads, should_stop>>
          /\ (jobs # <<>> /\ \E i \in 1..Len(threads) : ~busy[threads[i]]) =>
                /\ dispatched' = Append(dispatched, Head(jobs))
                /\ QueueView' = Tail(jobs)
                /\ sched_pc' \in {"recv", "run_jobs"}
          /\ (jobs = <<>> /\ ~should_stop) =>
                UNCHANGED <<jobs, sched_pc, dispatched, busy, winbox, threads,
                            should_stop, wstop, cur_job, push_front, to_remove,
                            joining, chan_open, health>>]_vars

\* C27 witness: with one worker, the JobEnded of job 1 was handled while the
\* worker was already busy with job 4 and jobs 3 and 2 were in the queue, in
\* that order: they still are
C27_Witness ==
    /\ max_threads = 1
    /\ sched_pc = "recv"
    /\ jobs = <<3, 2>>
    /\ dispatched = <<1, 4>>
    /\ executed = {1}
    /\ \A i \in 1..Len(chan) : chan[i].t # "JobEnded"
    /\ wpc[1] = "running"
    /\ wjob[1] = 4

\* C28: a status hook that fails does not end the chain: the worker goes on
\* with the next status hook, in order, executes all K of them, and only
\* then clears busy and sends its one JobEnded.
C28_FailedStatusHookDoesNotHalt ==
    /\ [][\A w \in Workers :
            (wpc[w] = "hooks" /\ WorkerSteps(w)) =>
                IF whooks[w] > 0
                THEN /\ wpc'[w] = "hooks"
                     /\ wexec'[w] = wexec[w] + 1
                     /\ whooks'[w] = whooks[w] - 1
                     /\ busy[w] /\ busy'[w]
                     /\ chan' = chan
                ELSE /\ wpc'[w] = "cleared"
                     /\ busy[w] /\ ~busy'[w]
                     /\ chan' = chan]_vars
    /\ [](\A w \in Workers :
            (wpc[w] = "cleared" /\ wres[w] = "ok") =>
                (wexec[w] = nhooks + 1 /\ wfail[w] \subseteq 1..nhooks))
    /\ [][\A w \in Workers :
            (wpc[w] = "cleared" /\ WorkerSteps(w) /\ chan_open) =>
                (chan' = Append(chan, Msg("JobEnded", 0)) /\ wpc'[w] = "recv")]_vars

\* C28 witness: the first status hook of a chain of two or more failed, and
\* the worker has executed the whole chain and cleared busy
C28_Witness ==
    \E w \in Workers :
        /\ nhooks >= 2
        /\ wpc[w] = "cleared"
        /\ 1 \in wfail[w]
        /\ wexec[w] = nhooks + 1
        /\ ~busy[w]

\* C29: the event loop keeps running or ends through the shutdown path (the
\* stop_wait notification, then the end of the thread), whatever messages it
\* gets: a HealthStatus whose requester is gone included, it never panics.
C29_SchedulerNeverFailsUpward ==
    /\ [](sched_pc \in {"none", "recv", "run_jobs", "join", "notify",
                        "exiting", "done"})
    /\ [][(sched_pc = "recv" /\ chan # <<>> /\ Head(chan).t = "HealthStatus"
           /\ chan' = Tail(chan))
            => (sched_pc' = "recv" /\ chan_open')]_vars

\* C30: once every handle of the input channel outside the processor is
\* gone, the scheduler acts as on StopSignal: it sets should_stop, stops
\* and joins its workers and ends with an empty worker list.
C30_ClosureActsAsStopSignal ==
    (~mgr_input /\ sched_pc # "none")
        ~> (should_stop /\ threads = <<>> /\ sched_pc \in {"notify", "exiting", "done"})

\* C31: with at least one worker, finitely many jobs, terminating jobs and
\* no StopSignal, every job that waits in the overflow queue is eventually
\* sent to a worker, and the worker takes it.
C31_NoStarvation ==
    \A j \in 1..MaxJobs :
        (\E k \in 1..Len(jobs) : jobs[k] = j)
            ~> (\E w \in Workers : wjob[w] = j)

\* two jobs waited in the overflow queue behind a running one, and the
\* queue is empty again with the last of them in a worker's hands
C31_Witness ==
    /\ max_threads >= 1
    /\ Len(overflowed) >= 2
    /\ jobs = <<>>
    /\ cur_job = 0
    /\ \E w \in Workers : wjob[w] # 0 /\ wjob[w] = overflowed[Len(overflowed)]

\* C32: no worker fails on sending JobEnded into a closed input channel, the
\* receiver of the input channel is dropped only once every worker that was
\* created was stopped and joined, and a worker that has exited is no longer
\* in the worker list.
C32_NoSendAfterClose ==
    /\ \A w \in Workers : wpc[w] # "panicked"
    /\ (sched_pc # "none" /\ ~chan_open)
        => \A w \in Workers : wpc[w] \in {"none", "exited"}
    /\ \A w \in Workers :
        wpc[w] = "exited" => \A i \in 1..Len(threads) : threads[i] # w

====
